---- MODULE Spec2Model ----
(***************************************************************************)
(* Model of tunnel_manager.py: the tunnel lifecycle manager that creates,  *)
(* deletes and toggles Cloudflare tunnels across three subsystems: the     *)
(* config store (one directory per tunnel under TUNNELS_DIR), the remote   *)
(* tunnel registry (cloudflared) and the service supervisor (systemd).     *)
(*                                                                         *)
(* The program is one interactive, single-threaded process.  One action    *)
(* models one pass of the main loop: the listing at the head of the loop   *)
(* followed by the handler of the chosen menu entry, run to completion.    *)
(* What the operator types and what the external tools answer are the      *)
(* inputs of the handlers; they are drawn from the small sets below.       *)
(*                                                                         *)
(* Spec is this machine with every answer of the tools.  ConfigSpec widens *)
(* what the operator enters at Create, SettingsSpec adds the settings menu *)
(* with a second store root, and RaceSpec interleaves the steps of         *)
(* create_tunnel in two operator processes.                                *)
(***************************************************************************)
EXTENDS Integers, Sequences, FiniteSets, TLC

VARIABLES
    running,      \* the process is alive (no unhandled exception, no exit)
    TUNNELS_DIR,  \* the module global TUNNELS_DIR: the current store root
    rootExists,   \* per root: the root directory exists on disk
    tdir,         \* per root and tunnel name: the tunnel directory and its files
    unitFile,     \* /etc/systemd/system/cloudflare-tunnel-<name>.service
    enabled,      \* supervisor: the unit is enabled
    active,       \* supervisor: the unit is running
    registry,     \* names that have an identity in the remote registry
    last,         \* what the last handler did: its inputs, steps and output
    intact,       \* history, per tunnel name: its latest Create ran to the end
                  \* and no teardown was started on it since
    proc          \* per operator process of the two-process specification:
                  \* where it stands in create_tunnel

vars == <<running, TUNNELS_DIR, rootExists, tdir, unitFile, enabled, active,
          registry, last, intact, proc>>

\* Everything outside the process: disk, supervisor and registry.
world == <<rootExists, tdir, unitFile, enabled, active, registry>>

(***************************************************************************)
(* Input sets.                                                             *)
(***************************************************************************)
\* Names with a directory of their own.
TunnelNames == {"a", "b"}

\* What the operator may type at a name prompt: Prompt.ask accepts the empty
\* string, and os.path.join(TUNNELS_DIR, "") is the store root itself.
Names == TunnelNames \cup {""}

\* Placeholder for the name of a handler that stopped before its name prompt.
NoName == "<not asked>"

DnsNames == {"app.example.com"}

ServiceUrls == {"http://localhost:8000"}

\* Store roots; the settings file starts at "tunnels".
DefaultRoot == "tunnels"

\* A directory the operator may enter in the settings menu.
OtherRoot == "elsewhere"

Roots == {DefaultRoot, OtherRoot}

\* os.getlogin()
Login == "operator"

\* os.getcwd(), the prefix os.path.abspath puts before a relative path.
Cwd == "/cwd"

(***************************************************************************)
(* Paths and file contents.  A path is the tuple of its components, a      *)
(* printed line the tuple of its words.                                    *)
(***************************************************************************)
TunnelPath(root, n) == <<root, n>>

ConfigPath(root, n) == TunnelPath(root, n) \o <<"config.yml">>

ScriptPath(root, n) == TunnelPath(root, n) \o <<"start_tunnel.sh">>

AbsPath(p) == <<Cwd>> \o p

ServiceName(n) == <<"cloudflare-tunnel-", n>>

ServiceFilePath(n) == <<"/etc/systemd/system/">> \o ServiceName(n) \o <<".service">>

\* os.chmod(script_path, 0o755)
ScriptMode == 493

\* Variant: the catch-all rule is written before the hostname rule.
IngressRulesCatchAllFirst(dns_name, service_url) ==
    << [hostname |-> <<>>,         service |-> "http_status:404"],
       [hostname |-> <<dns_name>>, service |-> service_url] >>

\* The two ingress rules of config.yml, in file order.  The catch-all rule has
\* no hostname key.
IngressRules(dns_name, service_url) ==
    << [hostname |-> <<dns_name>>, service |-> service_url],
       [hostname |-> <<>>,         service |-> "http_status:404"] >>

ConfigContent(n, creds_file_path, dns_name, service_url) ==
    [tunnel           |-> n,
     credentials_file |-> creds_file_path,
     ingress          |-> IngressRules(dns_name, service_url)]

ScriptContent(root, n) ==
    [shebang |-> "#!/bin/bash",
     command |-> <<"cloudflared", "tunnel", "--config">>
                 \o AbsPath(ConfigPath(root, n)) \o <<"run">>]

ServiceContent(root, n) ==
    [Description |-> <<"Cloudflare Tunnel for", n>>,
     After       |-> "network.target",
     ExecStart   |-> AbsPath(ScriptPath(root, n)),
     Restart     |-> "always",
     User        |-> Login,
     WantedBy    |-> "multi-user.target"]

\* A tunnel directory: absent, or present with the files written into it.
\* config and script hold zero or one element.
NoDir == [exists |-> FALSE, config |-> <<>>, script |-> <<>>]

EmptyDir == [exists |-> TRUE, config |-> <<>>, script |-> <<>>]

\* console.print of one line; body carries a multi-line payload (the unit text).
Line(style, text) == [style |-> style, text |-> text, body |-> <<>>]

LineWithBody(style, text, body) == [style |-> style, text |-> text, body |-> <<body>>]

\* The status part of a run that did not query the supervisor's status.
NoStatus == [tool |-> "not asked", stdout |-> <<>>, reported |-> "none"]

(***************************************************************************)
(* The file system as the handlers see it.                                 *)
(***************************************************************************)
\* os.path.exists(os.path.join(TUNNELS_DIR, name)); joining "" gives the root.
PathExists(root, n) ==
    IF n = "" THEN rootExists[root]
    ELSE rootExists[root] /\ tdir[root][n].exists

\* The directories list_tunnels and display_tunnel_info enumerate.
ListTunnels(root) == {n \in TunnelNames : tdir[root][n].exists}

\* os.listdir(TUNNELS_DIR) raises FileNotFoundError when the root is missing;
\* neither list_tunnels nor its callers catch it.
ListTunnelsRaises == ~rootExists[TUNNELS_DIR]

\* os.path.exists(service_file_path)
UnitFileExists(n) == unitFile[n] # <<>>

(***************************************************************************)
(* The registry tool's standard output and the scraping of the credential  *)
(* path from it.  A line is the tuple of its fragments; the fragments      *)
(* "to " and ". " are the two separators the code splits on.               *)
(***************************************************************************)
CredsJson == "/home/operator/.cloudflared/id.json"

\* A credential file elsewhere.
CredsJsonOther == "/etc/cloudflared/cert-b.json"

\* Fragments in which the substring ".json" occurs.
JsonFragments == {CredsJson, CredsJsonOther, "see creds.json "}

\* stdout as cloudflared prints it on success.
StdoutUsual ==
    << <<"Tunnel credentials written ", "to ", CredsJson, ". ", "Keep this file secret.">>,
       <<"Created tunnel">> >>

\* The path on a later line and without a sentence after it.
StdoutLateLine ==
    << <<"Created tunnel">>, <<"credentials written ", "to ", CredsJson>> >>

\* The usual output naming the other credential file.
StdoutOtherPath ==
    << <<"Tunnel credentials written ", "to ", CredsJsonOther, ". ", "Keep this file secret.">>,
       <<"Created tunnel">> >>

\* No line mentions a .json file.
StdoutNoJson == << <<"Created tunnel">> >>

\* A .json line in which nothing stands between "to " and ". ".
StdoutEmptyPath ==
    << <<"see creds.json ", "written ", "to ", ". ", "done">> >>

\* A .json line without the "to " token.
StdoutNoTo == << <<"Credentials file: ", CredsJson>> >>

RegistryOutputs ==
    {StdoutUsual, StdoutLateLine, StdoutNoJson, StdoutEmptyPath, StdoutNoTo}

\* ".json" in line
HasJson(line) == \E i \in 1..Len(line) : line[i] \in JsonFragments

\* Index of the first occurrence of fragment tok in line, 0 when there is none.
FirstIndex(line, tok) ==
    IF \E i \in 1..Len(line) : line[i] = tok
    THEN CHOOSE i \in 1..Len(line) :
            /\ line[i] = tok
            /\ \A j \in 1..(i - 1) : line[j] # tok
    ELSE 0

\* line.split(sep)[0]
BeforeFirst(line, sep) ==
    IF FirstIndex(line, sep) = 0 THEN line
    ELSE SubSeq(line, 1, FirstIndex(line, sep) - 1)

\* line.split(sep)[1], defined when sep occurs in line
SecondPiece(line, sep) ==
    BeforeFirst(SubSeq(line, FirstIndex(line, sep) + 1, Len(line)), sep)

\* Lines 67-72: the first line holding ".json" decides; a line without "to "
\* makes split("to ")[1] raise IndexError.
CredsFilePath(stdout) ==
    IF \A k \in 1..Len(stdout) : ~HasJson(stdout[k])
    THEN [raised |-> FALSE, path |-> <<>>]
    ELSE LET k == CHOOSE i \in 1..Len(stdout) :
                     /\ HasJson(stdout[i])
                     /\ \A j \in 1..(i - 1) : ~HasJson(stdout[j])
             line == stdout[k]
         IN  IF FirstIndex(line, "to ") = 0
             THEN [raised |-> TRUE, path |-> <<>>]
             ELSE [raised |-> FALSE,
                   path   |-> BeforeFirst(SecondPiece(line, "to "), ". ")]

(***************************************************************************)
(* What the external tools answer during one create_tunnel call.           *)
(*   cf     : "missing" (cloudflared not on PATH), "fail" (non-zero exit), *)
(*            "ok"                                                         *)
(*   stdout : cloudflared's output when it exits with zero                 *)
(*   unit   : open(service_file_path, "w"): "ok", "denied"                 *)
(*            (PermissionError), "nodir" (FileNotFoundError: no            *)
(*            /etc/systemd/system on this host)                            *)
(*   sup    : the sudo systemctl calls: "ok", "nosudo" (sudo not on PATH), *)
(*            or the first command that exits non-zero                     *)
(* Inputs that differ only in answers the handler never asks for are left  *)
(* out.                                                                    *)
(***************************************************************************)
CreateEnv(cf, stdout, unit, sup) ==
    [cf |-> cf, stdout |-> stdout, unit |-> unit, sup |-> sup]

\* Every tool present and every command exiting with zero.
CreateEnvQuiet == CreateEnv("ok", StdoutUsual, "ok", "ok")

CreateEnvs ==
    {CreateEnv(cf, StdoutUsual, "ok", "ok") : cf \in {"missing", "fail"}}
    \cup {CreateEnv("ok", o, "ok", "ok") : o \in RegistryOutputs}
    \cup {CreateEnv("ok", o, u, "ok") :
            o \in {StdoutUsual, StdoutLateLine}, u \in {"denied", "nodir"}}
    \cup {CreateEnv("ok", o, "ok", s) :
            o \in {StdoutUsual, StdoutLateLine},
            s \in {"nosudo", "reload", "enable", "start"}}

(***************************************************************************)
(* create_tunnel, step by step.  A run is a record r:                      *)
(*   result   how the handler ended                                        *)
(*   trace    the external steps it attempted, in order                    *)
(*   printed  the lines it printed                                         *)
(*   dir, identity, unit, en, act   the tunnel's directory, registry       *)
(*            identity, unit file and supervisor flags as the run leaves   *)
(*            them                                                         *)
(*   confirm  the operator's answer to Confirm.ask, when it was put        *)
(*   rootGone the run removed the store root itself                        *)
(*   args     what the operator typed at the prompts after the name        *)
(*   status   the status query of display_tunnel_info: whether systemctl   *)
(*            was found, what it printed and what the handler reported     *)
(***************************************************************************)
RunStart(root, n) ==
    [result   |-> "",
     trace    |-> <<>>,
     printed  |-> <<>>,
     dir      |-> IF n \in TunnelNames THEN tdir[root][n] ELSE NoDir,
     identity |-> n \in registry,
     unit     |-> unitFile[n],
     en       |-> enabled[n],
     act      |-> active[n],
     confirm  |-> "not asked",
     rootGone |-> FALSE,
     status   |-> NoStatus,
     args     |-> <<>>]

Step(r, name) == [r EXCEPT !.trace = Append(@, name)]

Say(r, line) == [r EXCEPT !.printed = Append(@, line)]

End(r, result) == [r EXCEPT !.result = result]

\* Variant: only a directory that already holds a config file counts as taken.
NameTakenWhenConfigured(root, n) ==
    n \in TunnelNames /\ rootExists[root] /\ tdir[root][n].config # <<>>

\* Line 53: the name is taken when the path exists.
NameTaken(root, n) == PathExists(root, n)

\* Lines 53-55.
CreateAlreadyExists(r, n) ==
    End(Say(r, Line("red", <<"Tunnel", n, "already exists.">>)), "AlreadyExists")

\* Line 57: os.makedirs(tunnel_path).
Reserve(r) == [Step(r, "makedirs") EXCEPT !.dir = EmptyDir]

\* Lines 138-140: except FileNotFoundError prints and returns.
CreateCommandNotFound(r) ==
    End(Say(Say(r, Line("red", <<"Error: 'cloudflared' command not found.">>)),
            Line("plain", <<"Please make sure Cloudflare Tunnel is installed and in your PATH.">>)),
        "CommandNotFound")

\* Variant: the handler removes the reserved directory before it returns.
CreateCalledProcessErrorRollback(r) ==
    End(Say(Say([r EXCEPT !.dir = NoDir], Line("red", <<"Error creating tunnel:">>)),
            Line("plain", <<"e.stderr">>)),
        "ErrorCreating")

\* Lines 141-143: except CalledProcessError prints and returns.
CreateCalledProcessError(r) ==
    End(Say(Say(r, Line("red", <<"Error creating tunnel:">>)),
            Line("plain", <<"e.stderr">>)),
        "ErrorCreating")

\* Lines 74-76.
CreateCredsNotFound(r) ==
    End(Say(r, Line("red", <<"Could not find the credentials file path in the output.">>)),
        "CredsNotFound")

\* An exception no handler of create_tunnel catches (IndexError of line 71).
CreateUnhandled(r) == End(r, "Unhandled")

\* Lines 61-64: cloudflared tunnel create <name>, check=True.  The registry
\* refuses a name that already has an identity.
RegistryCreateSucceeds(n, e) == e.cf = "ok" /\ n \notin registry

RegisterIdentity(r, n) ==
    Say([r EXCEPT !.identity = TRUE], Line("green", <<"result.stdout">>))

\* Lines 79-100: config.yml, start_tunnel.sh and its chmod.
WriteConfig(r, root, n, creds_file_path, dns_name, service_url) ==
    Say([Step(r, "write_config") EXCEPT
            !.dir.config = <<ConfigContent(n, creds_file_path, dns_name, service_url)>>],
        Line("plain", <<"Created config file at">> \o ConfigPath(root, n)))

\* Variant: the launch script is not written at this point.
WriteScriptSkipped(r, root, n) == r

WriteScript(r, root, n) ==
    Say([Step(Step(r, "write_script"), "chmod") EXCEPT
            !.dir.script = <<[content |-> ScriptContent(root, n), mode |-> ScriptMode]>>],
        Line("plain", <<"Created startup script at">> \o ScriptPath(root, n)))

\* Lines 118-120.
WriteUnitFile(r, root, n) ==
    Say([r EXCEPT !.unit = <<ServiceContent(root, n)>>],
        Line("plain", <<"Created systemd service file at">> \o ServiceFilePath(n)))

\* Variant: the daemon-reload command is not printed.
RemediationLinesShort(root, n) ==
    << Line("plain", <<"---">>),
       Line("yellow", <<"Could not create or install the systemd service due to permission errors.">>),
       Line("plain", <<"Please run the following commands with sudo to complete the setup:">>),
       LineWithBody("plain",
                    <<"sudo", "bash", "-c", "cat >">> \o ServiceFilePath(n) \o <<"<< EOF">>,
                    ServiceContent(root, n)),
       Line("plain", <<"sudo", "systemctl", "enable", "--now">> \o ServiceName(n)),
       Line("plain", <<"---">>) >>

\* Lines 129-136: except PermissionError prints the unit text and the commands
\* that finish the installation by hand.
RemediationLines(root, n) ==
    << Line("plain", <<"---">>),
       Line("yellow", <<"Could not create or install the systemd service due to permission errors.">>),
       Line("plain", <<"Please run the following commands with sudo to complete the setup:">>),
       LineWithBody("plain",
                    <<"sudo", "bash", "-c", "cat >">> \o ServiceFilePath(n) \o <<"<< EOF">>,
                    ServiceContent(root, n)),
       Line("plain", <<"sudo", "systemctl", "daemon-reload">>),
       Line("plain", <<"sudo", "systemctl", "enable", "--now">> \o ServiceName(n)),
       Line("plain", <<"---">>) >>

CreatePermissionDenied(r, root, n) ==
    End([r EXCEPT !.printed = @ \o RemediationLines(root, n)], "Degraded")

\* Lines 122-127: daemon-reload, enable and start, each with check=True.
InstallUnit(r, n, e) ==
    LET r1 == Step(Say(r, Line("plain", <<"Reloading systemd daemon...">>)), "daemon_reload")
        r2 == Step(Say(r1, Line("plain", <<"Enabling and starting service">> \o ServiceName(n))),
                   "enable")
        r3 == Step([r2 EXCEPT !.en = TRUE], "start")
    IN  IF e.sup = "nosudo" THEN CreateCommandNotFound(r1)
        ELSE IF e.sup = "reload" THEN CreateCalledProcessError(r1)
        ELSE IF e.sup = "enable" THEN CreateCalledProcessError(r2)
        ELSE IF e.sup = "start" THEN CreateCalledProcessError(r3)
        ELSE End(Say([r3 EXCEPT !.act = TRUE],
                     Line("green", <<"Tunnel service started and enabled.">>)),
                 "Active")

\* Lines 103-136.
InstallService(r, root, n, e) ==
    LET r1 == Step(r, "write_unit")
    IN  IF e.unit = "denied" THEN CreatePermissionDenied(r1, root, n)
        ELSE IF e.unit = "nodir" THEN CreateCommandNotFound(r1)
        ELSE InstallUnit(WriteUnitFile(r1, root, n), n, e)

\* Lines 59-143, after the directory was reserved.
CreateAfterReserve(r, root, n, dns_name, service_url, e) ==
    LET r1 == Step(Say(r, Line("plain", <<"Creating Cloudflare tunnel", n>>)), "registry_create")
        creds == CredsFilePath(e.stdout)
    IN  IF e.cf = "missing" THEN CreateCommandNotFound(r1)
        ELSE IF ~RegistryCreateSucceeds(n, e) THEN CreateCalledProcessError(r1)
        ELSE IF creds.raised THEN CreateUnhandled(RegisterIdentity(r1, n))
        ELSE IF creds.path = <<>> THEN CreateCredsNotFound(RegisterIdentity(r1, n))
        ELSE InstallService(
                WriteScript(
                    WriteConfig(RegisterIdentity(r1, n), root, n, creds.path,
                                dns_name, service_url),
                    root, n),
                root, n, e)

\* create_tunnel, lines 45-143.
CreateTunnelRun(n, dns_name, service_url, e) ==
    LET r == [RunStart(TUNNELS_DIR, n) EXCEPT !.args = <<dns_name, service_url>>]
    IN  IF NameTaken(TUNNELS_DIR, n)
        THEN CreateAlreadyExists(r, n)
        ELSE CreateAfterReserve(Reserve(r), TUNNELS_DIR, n, dns_name, service_url, e)

(***************************************************************************)
(* What the external tools answer during one delete_tunnel call.           *)
(*   sudo    : sudo is on PATH                                             *)
(*   stop, disable, rm, reload : the command exits with zero when the      *)
(*             supervisor (or the file) is in a state that allows it       *)
(*   cf      : cloudflared tunnel delete: "missing", "fail", "ok"          *)
(*   rmtree  : shutil.rmtree succeeds                                      *)
(* Of the answers that abort the handler at most one is chosen per call:   *)
(* after the first of them the handler asks nothing more.                  *)
(***************************************************************************)
DeleteEnv(sudo, stop, disable, rm, reload, cf, rmtree) ==
    [sudo |-> sudo, stop |-> stop, disable |-> disable, rm |-> rm,
     reload |-> reload, cf |-> cf, rmtree |-> rmtree]

\* Every tool present and every command exiting with zero.
DeleteEnvQuiet == DeleteEnv(TRUE, TRUE, TRUE, TRUE, TRUE, "ok", TRUE)

DeleteEnvs ==
    {DeleteEnv(FALSE, TRUE, TRUE, TRUE, TRUE, "ok", TRUE)}
    \cup {DeleteEnv(TRUE, st, di, FALSE, TRUE, "ok", TRUE) : st \in BOOLEAN, di \in BOOLEAN}
    \cup {DeleteEnv(TRUE, st, di, TRUE, FALSE, "ok", TRUE) : st \in BOOLEAN, di \in BOOLEAN}
    \cup {DeleteEnv(TRUE, st, di, TRUE, TRUE, cf, TRUE) :
            st \in BOOLEAN, di \in BOOLEAN, cf \in {"missing", "fail", "ok"}}
    \cup {DeleteEnv(TRUE, st, di, TRUE, TRUE, cf, FALSE) :
            st \in BOOLEAN, di \in BOOLEAN, cf \in {"fail", "ok"}}

\* The answers that can make a difference for tunnel n in the current state: a
\* command that is not run, or that fails whatever the tool answers, takes the
\* quiet answer.
DeleteEnvsFor(n) ==
    {e \in DeleteEnvs :
        /\ (unitFile[n] = <<>> /\ ~active[n]) => e.stop
        /\ (unitFile[n] = <<>> /\ ~enabled[n]) => e.disable
        /\ unitFile[n] = <<>> => e.rm
        /\ n \notin registry => e.cf # "fail"}

(***************************************************************************)
(* delete_tunnel, step by step, on the same run record.                    *)
(***************************************************************************)
\* Lines 153-155.
DeleteNotFound(r, n) ==
    End(Say(r, Line("red", <<"Tunnel", n, "not found.">>)), "NotFound")

\* Lines 157-159.
DeleteCancelled(r) ==
    End(Say([r EXCEPT !.confirm = "no"], Line("yellow", <<"Deletion cancelled.">>)),
        "Cancelled")

\* Lines 195-197: except CalledProcessError.
DeleteCalledProcessError(r) ==
    End(Say(Say(r, Line("red", <<"Error deleting tunnel:">>)),
            Line("plain", <<"e.stderr">>)),
        "ErrorDeleting")

\* Lines 198-199: except Exception.
DeleteUnexpected(r) ==
    End(Say(r, Line("bold red", <<"An unexpected error occurred:", "e">>)),
        "UnexpectedError")

\* The supervisor can stop or disable a unit it knows: one with a unit file,
\* or one still running or enabled.
StopSucceeds(r, e) == e.stop /\ (r.unit # <<>> \/ r.act)

DisableSucceeds(r, e) == e.disable /\ (r.unit # <<>> \/ r.en)

\* Lines 163-166: stop and disable with check=False; an exit code is ignored.
StopAndDisable(r, n, e) ==
    LET r1 == Step(Say(r, Line("plain", <<"Stopping and disabling systemd service">>
                                         \o ServiceName(n))),
                   "stop")
        r2 == Step([r1 EXCEPT !.act = IF StopSucceeds(r1, e) THEN FALSE ELSE @], "disable")
    IN  [r2 EXCEPT !.en = IF DisableSucceeds(r2, e) THEN FALSE ELSE @]

\* Lines 188-193.
RemoveDirectory(r, root, n) ==
    End(Say(Say([Step(r, "rmtree") EXCEPT !.dir = NoDir, !.rootGone = (n = "")],
                Line("plain", <<"Removed tunnel directory:">> \o TunnelPath(root, n))),
            Line("green", <<"Tunnel", n, "deleted successfully.">>)),
        "Deleted")

\* Lines 179-193: the registry's exit code is only reported; rmtree follows.
DeleteIdentityAndDirectory(r, root, n, e) ==
    LET r1 == Step(Say(r, Line("plain", <<"Deleting cloudflare tunnel", n>>)),
                   "registry_delete")
        r2 == IF e.cf = "ok" /\ r1.identity
              THEN Say([r1 EXCEPT !.identity = FALSE],
                       Line("green", <<"Successfully deleted tunnel", n, "from Cloudflare.">>))
              ELSE Say(r1, Line("yellow", <<"Could not delete tunnel from Cloudflare.",
                                            "It might have been already deleted.">>))
    IN  IF e.cf = "missing" THEN DeleteUnexpected(r1)
        ELSE IF ~e.rmtree THEN DeleteUnexpected(Step(r2, "rmtree"))
        ELSE RemoveDirectory(r2, root, n)

\* Lines 174-176: daemon-reload with check=True.
ReloadThenRest(r, root, n, e) ==
    LET r1 == Step(Say(r, Line("plain", <<"Reloading systemd daemon...">>)), "daemon_reload")
    IN  IF ~e.reload THEN DeleteCalledProcessError(r1)
        ELSE DeleteIdentityAndDirectory(r1, root, n, e)

\* Lines 168-172: sudo rm of the unit file, when it exists, with check=True.
RemoveUnitThenRest(r, root, n, e) ==
    IF r.unit # <<>>
    THEN IF ~e.rm THEN DeleteCalledProcessError(Step(r, "rm_unit"))
         ELSE ReloadThenRest(
                 Say([Step(r, "rm_unit") EXCEPT !.unit = <<>>],
                     Line("plain", <<"Removed systemd service file.">>)),
                 root, n, e)
    ELSE ReloadThenRest(r, root, n, e)

\* Lines 161-199: the teardown after a positive confirmation.
Teardown(r, root, n, e) ==
    IF ~e.sudo THEN DeleteUnexpected(Step(r, "stop"))
    ELSE RemoveUnitThenRest(StopAndDisable(r, n, e), root, n, e)

\* Variant: no existence check before the confirmation.
DeleteTunnelRunUnchecked(n, confirmed, e) ==
    IF ~confirmed THEN DeleteCancelled(RunStart(TUNNELS_DIR, n))
    ELSE Teardown([RunStart(TUNNELS_DIR, n) EXCEPT !.confirm = "yes"], TUNNELS_DIR, n, e)

\* Variant: the unit is stopped and disabled before the confirmation is asked.
DeleteTunnelRunEager(n, confirmed, e) ==
    IF ~PathExists(TUNNELS_DIR, n) THEN DeleteNotFound(RunStart(TUNNELS_DIR, n), n)
    ELSE IF ~confirmed THEN DeleteCancelled(StopAndDisable(RunStart(TUNNELS_DIR, n), n, e))
    ELSE Teardown([RunStart(TUNNELS_DIR, n) EXCEPT !.confirm = "yes"], TUNNELS_DIR, n, e)

\* delete_tunnel from its name prompt on, lines 150-199.
DeleteTunnelRun(n, confirmed, e) ==
    IF ~PathExists(TUNNELS_DIR, n) THEN DeleteNotFound(RunStart(TUNNELS_DIR, n), n)
    ELSE IF ~confirmed THEN DeleteCancelled(RunStart(TUNNELS_DIR, n))
    ELSE Teardown([RunStart(TUNNELS_DIR, n) EXCEPT !.confirm = "yes"], TUNNELS_DIR, n, e)

(***************************************************************************)
(* display_tunnel_info: the Activate and Deactivate entries.               *)
(*   "nosudo" : sudo is not on PATH; FileNotFoundError is not caught       *)
(*   "fail"   : the command exits non-zero                                 *)
(*   "ok"     : it exits with zero when the unit file exists               *)
(***************************************************************************)
ToggleEnvs == {"nosudo", "fail", "ok"}

\* Variant: Deactivate also removes the unit file.
ToggleRunUninstall(n, on, e) ==
    LET r == Step(RunStart(TUNNELS_DIR, n), IF on THEN "enable_now" ELSE "disable_now")
    IN  IF e = "nosudo" THEN End(r, "Unhandled")
        ELSE IF e = "fail" \/ r.unit = <<>> THEN End(r, "SupervisorError")
        ELSE End([r EXCEPT !.en = on, !.act = on, !.unit = IF on THEN @ ELSE <<>>],
                 IF on THEN "Activated" ELSE "Deactivated")

\* Lines 248-254 (enable --now) and 255-261 (disable --now).
ToggleRun(n, on, e) ==
    LET r == Step(RunStart(TUNNELS_DIR, n), IF on THEN "enable_now" ELSE "disable_now")
    IN  IF e = "nosudo" THEN End(r, "Unhandled")
        ELSE IF e = "fail" \/ r.unit = <<>>
        THEN End(Say(r, Line("red", <<IF on THEN "Error activating service:"
                                            ELSE "Error deactivating service:">>)),
                 "SupervisorError")
        ELSE End(Say([r EXCEPT !.en = on, !.act = on],
                     Line(IF on THEN "green" ELSE "yellow",
                          <<"Service for", n, IF on THEN "activated." ELSE "deactivated.">>)),
                 IF on THEN "Activated" ELSE "Deactivated")

(***************************************************************************)
(* display_tunnel_info: the status query at the head of its loop, lines    *)
(* 230-241.  What systemctl prints is the tuple of its fragments.          *)
(***************************************************************************)
Whitespace == {" ", "\n"}

StdoutActive == <<"active", "\n">>

StdoutInactive == <<"inactive", "\n">>

StdoutFailed == <<"failed", "\n">>

\* [found, stdout]: systemctl is on PATH, and what is-active prints.  The
\* supervisor answers "active" exactly for a running unit.
StatusEnv(found, stdout) == [found |-> found, stdout |-> stdout]

StatusEnvs ==
    {StatusEnv(FALSE, <<>>)}
    \cup {StatusEnv(TRUE, o) : o \in {StdoutActive, StdoutInactive, StdoutFailed}}

StatusEnvsFor(n) ==
    {s \in StatusEnvs : s.found => (s.stdout = StdoutActive <=> active[n])}

\* str.strip(): whitespace is dropped at both ends.
RECURSIVE LStrip(_)
LStrip(s) == IF s # <<>> /\ Head(s) \in Whitespace THEN LStrip(Tail(s)) ELSE s

RECURSIVE RStrip(_)
RStrip(s) ==
    IF s # <<>> /\ s[Len(s)] \in Whitespace THEN RStrip(SubSeq(s, 1, Len(s) - 1)) ELSE s

Strip(s) == RStrip(LStrip(s))

\* Variant: a missing systemctl is reported like a unit that does not run.
StatusReportedConflated(s) ==
    IF s.found /\ Strip(s.stdout) = <<"active">> THEN "active" ELSE "inactive"

\* Lines 231-241: "unknown" stands for the line "Could not check service
\* status. 'systemctl' not found.".
StatusReported(s) ==
    IF ~s.found THEN "unknown"
    ELSE IF Strip(s.stdout) = <<"active">> THEN "active"
    ELSE "inactive"

StatusLine(reported) ==
    IF reported = "unknown"
    THEN Line("plain", <<"Could not check service status. 'systemctl' not found.">>)
    ELSE Line(IF reported = "active" THEN "green" ELSE "red",
              <<"Service Status:", reported>>)

\* The query comes before the action menu: its line is the first of the pass.
QueryStatus(r, s) ==
    [r EXCEPT !.status = [tool     |-> IF s.found THEN "ran" ELSE "missing",
                          stdout   |-> s.stdout,
                          reported |-> StatusReported(s)],
              !.printed = <<StatusLine(StatusReported(s))>> \o @]

\* Lines 226-246 and 270-271: the status is shown and Back is chosen.
StatusRun(n, s) == End(QueryStatus(RunStart(TUNNELS_DIR, n), s), "Back")

(***************************************************************************)
(* The state machine.                                                      *)
(***************************************************************************)
NoTunnels == [n \in TunnelNames |-> NoDir]

\* The operator processes of the two-process specification, and a process
\* that stands at its main menu.
Procs == {"p1", "p2"}

AtMenu == [pc |-> "menu", name |-> NoName, result |-> "", reserved |-> {}]

LastOf(op, n, r) ==
    [op      |-> op,
     name    |-> n,
     result  |-> r.result,
     trace   |-> r.trace,
     printed |-> r.printed,
     confirm |-> r.confirm,
     listed  |-> ListTunnels(TUNNELS_DIR),
     status  |-> r.status,
     args    |-> r.args]

\* The history after run r of handler op on name n: a tunnel is intact from a
\* Create that ran to the end until a teardown is started on it or its
\* directory is gone.
IntactAfter(op, n, r) ==
    [m \in TunnelNames |->
        IF r.rootGone THEN FALSE
        ELSE IF m # n THEN intact[m]
        ELSE IF ~r.dir.exists THEN FALSE
        ELSE IF op = "create" /\ r.result # "AlreadyExists" THEN r.result = "Active"
        ELSE IF op = "delete" /\ r.confirm = "yes" THEN FALSE
        ELSE intact[m]]

\* What run r on name n leaves on disk, in the supervisor and in the registry.
ApplyWorld(n, r) ==
    /\ rootExists' = IF r.rootGone THEN [rootExists EXCEPT ![TUNNELS_DIR] = FALSE]
                     ELSE rootExists
    /\ tdir' = IF r.rootGone THEN [tdir EXCEPT ![TUNNELS_DIR] = NoTunnels]
               ELSE IF n \in TunnelNames THEN [tdir EXCEPT ![TUNNELS_DIR][n] = r.dir]
               ELSE tdir
    /\ unitFile' = [unitFile EXCEPT ![n] = r.unit]
    /\ enabled' = [enabled EXCEPT ![n] = r.en]
    /\ active' = [active EXCEPT ![n] = r.act]
    /\ registry' = IF r.identity THEN registry \cup {n} ELSE registry \ {n}

\* The state a finished run leaves behind.
Apply(op, n, r) ==
    /\ running' = (r.result # "Unhandled")
    /\ ApplyWorld(n, r)
    /\ last' = LastOf(op, n, r)
    /\ intact' = IntactAfter(op, n, r)
    /\ UNCHANGED <<TUNNELS_DIR, proc>>

\* Lines 313, 149 and 206: the listing raises before the handler asks anything;
\* the exception ends the process.
ListingRaised(op) ==
    /\ running' = FALSE
    /\ last' = [op |-> op, name |-> NoName, result |-> "Unhandled", trace |-> <<>>,
                printed |-> <<>>, confirm |-> "not asked", listed |-> {},
                status |-> NoStatus, args |-> <<>>]
    /\ UNCHANGED <<TUNNELS_DIR, rootExists, tdir, unitFile, enabled, active, registry, intact>>
    /\ UNCHANGED proc

Init ==
    /\ running = TRUE
    /\ TUNNELS_DIR = DefaultRoot
    /\ rootExists = [r \in Roots |-> r = DefaultRoot]
    /\ tdir = [r \in Roots |-> NoTunnels]
    /\ unitFile = [n \in Names |-> <<>>]
    /\ enabled = [n \in Names |-> FALSE]
    /\ active = [n \in Names |-> FALSE]
    /\ registry = {}
    /\ last = [op |-> "start", name |-> NoName, result |-> "", trace |-> <<>>,
               printed |-> <<>>, confirm |-> "not asked", listed |-> {},
                status |-> NoStatus, args |-> <<>>]
    /\ intact = [n \in TunnelNames |-> FALSE]
    /\ proc = [p \in Procs |-> AtMenu]

\* Menu entry 1, with the operator's answers drawn from D and U and the
\* tools' answers from E.
CreateTunnelFrom(D, U, E) ==
    /\ running
    /\ IF ListTunnelsRaises THEN ListingRaised("create")
       ELSE \E n \in Names, dns_name \in D, service_url \in U :
            \E e \in (IF NameTaken(TUNNELS_DIR, n) THEN {CreateEnvQuiet} ELSE E) :
                Apply("create", n, CreateTunnelRun(n, dns_name, service_url, e))

CreateTunnel == CreateTunnelFrom(DnsNames, ServiceUrls, CreateEnvs)

\* Menu entry 2.  A run that never asks for the confirmation or never calls a
\* tool takes the quiet answers.
DeleteTunnelFrom(E) ==
    /\ running
    /\ IF ListTunnelsRaises THEN ListingRaised("delete")
       ELSE \E n \in Names :
            \E confirmed \in (IF PathExists(TUNNELS_DIR, n) THEN BOOLEAN ELSE {FALSE}) :
            \E e \in (IF confirmed THEN DeleteEnvsFor(n) \cap E ELSE {DeleteEnvQuiet}) :
                Apply("delete", n, DeleteTunnelRun(n, confirmed, e))

DeleteTunnel == DeleteTunnelFrom(DeleteEnvs)

\* Menu entry 3, with a tunnel picked from the listing and Activate or
\* Deactivate chosen.
ToggleServiceFrom(E, S) ==
    /\ running
    /\ IF ListTunnelsRaises THEN ListingRaised("display")
       ELSE \E n \in ListTunnels(TUNNELS_DIR), on \in BOOLEAN, e \in E :
            \E s \in StatusEnvsFor(n) \cap S :
                Apply(IF on THEN "activate" ELSE "deactivate", n,
                      QueryStatus(ToggleRun(n, on, e), s))

ToggleService == ToggleServiceFrom(ToggleEnvs, StatusEnvs)

\* Menu entry 3, with a tunnel picked from the listing and Back chosen after
\* its status was shown.
DisplayStatus ==
    /\ running
    /\ IF ListTunnelsRaises THEN ListingRaised("display")
       ELSE \E n \in ListTunnels(TUNNELS_DIR) :
            \E s \in StatusEnvsFor(n) :
                Apply("status", n, StatusRun(n, s))

\* Menu entry 5.
Exit ==
    /\ running
    /\ ~ListTunnelsRaises
    /\ running' = FALSE
    /\ last' = [op |-> "exit", name |-> NoName, result |-> "", trace |-> <<>>,
                printed |-> <<>>, confirm |-> "not asked",
                listed |-> ListTunnels(TUNNELS_DIR), status |-> NoStatus, args |-> <<>>]
    /\ UNCHANGED <<TUNNELS_DIR, rootExists, tdir, unitFile, enabled, active, registry, intact>>
    /\ UNCHANGED proc

\* The operator runs the program again: main() creates a missing store root.
Start ==
    /\ ~running
    /\ running' = TRUE
    /\ rootExists' = [rootExists EXCEPT ![TUNNELS_DIR] = TRUE]
    /\ last' = [op |-> "start", name |-> NoName, result |-> "", trace |-> <<>>,
                printed |-> <<>>, confirm |-> "not asked", listed |-> {},
                status |-> NoStatus, args |-> <<>>]
    /\ UNCHANGED <<TUNNELS_DIR, tdir, unitFile, enabled, active, registry, intact, proc>>

(***************************************************************************)
(* A second specification for what Create writes: every tool is present    *)
(* and answers with success, and the operator's answers and the registry's *)
(* credential path range over more values.                                 *)
(***************************************************************************)
AnyDnsNames == {"app.example.com", "demo.example.com", "*.example.com"}

AnyServiceUrls == {"http://localhost:8000", "http://localhost:3000", "http_status:404"}

AnswersWithPath ==
    {CreateEnv("ok", o, "ok", "ok") : o \in {StdoutUsual, StdoutLateLine, StdoutOtherPath}}

CreateTunnelAnyInput == CreateTunnelFrom(AnyDnsNames, AnyServiceUrls, AnswersWithPath)

DeleteTunnelClean == DeleteTunnelFrom({DeleteEnvQuiet})

ConfigNext ==
    \/ CreateTunnelAnyInput
    \/ DeleteTunnelClean
    \/ Exit
    \/ Start

ConfigSpec == Init /\ [][ConfigNext]_vars

(***************************************************************************)
(* A third specification with the settings menu: the operator may change   *)
(* the store root.  Every handler finds every tool present and answering   *)
(* with success.                                                           *)
(***************************************************************************)
\* Menu entry 4, "Change tunnel config directory", lines 283-293: the entered
\* directory (the current one when the answer is empty) becomes TUNNELS_DIR,
\* is saved to the settings file and is created when it does not exist.
ChangeDirectory ==
    /\ running
    /\ IF ListTunnelsRaises THEN ListingRaised("settings")
       ELSE \E new_dir \in Roots :
            /\ TUNNELS_DIR' = new_dir
            /\ rootExists' = [rootExists EXCEPT ![new_dir] = TRUE]
            /\ last' = [op |-> "settings", name |-> NoName, result |-> "Changed",
                        trace |-> <<>>,
                        printed |-> <<Line("green", <<"Tunnel config directory changed to",
                                                      new_dir>>)>>,
                        confirm |-> "not asked", listed |-> ListTunnels(TUNNELS_DIR),
                        status |-> NoStatus, args |-> <<new_dir>>]
            /\ UNCHANGED <<running, tdir, unitFile, enabled, active, registry, intact>>
    /\ UNCHANGED proc

CreateTunnelToolsOk == CreateTunnelFrom(DnsNames, ServiceUrls, {CreateEnvQuiet})

DeleteTunnelToolsOk == DeleteTunnelFrom({DeleteEnvQuiet})

StatusEnvsFound == {StatusEnv(TRUE, StdoutActive), StatusEnv(TRUE, StdoutInactive)}

ToggleServiceToolsOk == ToggleServiceFrom({"ok"}, StatusEnvsFound)

SettingsNext ==
    \/ CreateTunnelToolsOk
    \/ DeleteTunnelToolsOk
    \/ ToggleServiceToolsOk
    \/ ChangeDirectory
    \/ Exit
    \/ Start

SettingsSpec == Init /\ [][SettingsNext]_vars

(***************************************************************************)
(* A fourth specification: two operator processes run create_tunnel on the *)
(* same store, and their steps interleave.  A process takes three steps:   *)
(* the prompts with the existence check of line 53, os.makedirs of line    *)
(* 57, and the rest of the handler from line 59 on.                        *)
(***************************************************************************)
\* Variant: os.makedirs(tunnel_path, exist_ok=True).
MakedirsExistOk(root, n) == FALSE

\* Line 57: os.makedirs raises FileExistsError when the path exists at the
\* time of the call; the mkdir system call decides that atomically.
MakedirsRaises(root, n) == PathExists(root, n)

\* Lines 48-55: the prompts and the existence check.
AskAndCheck(p) ==
    /\ proc[p].pc = "menu"
    /\ ~ListTunnelsRaises
    /\ \E n \in Names :
        proc' = [proc EXCEPT ![p] =
                    IF NameTaken(TUNNELS_DIR, n)
                    THEN [@ EXCEPT !.name = n, !.result = "AlreadyExists"]
                    ELSE [@ EXCEPT !.pc = "checked", !.name = n, !.result = ""]]
    /\ UNCHANGED <<running, TUNNELS_DIR, rootExists, tdir, unitFile, enabled, active,
                   registry, last, intact>>

\* Line 57, outside the try block: FileExistsError ends the process.
Makedirs(p) ==
    /\ proc[p].pc = "checked"
    /\ IF MakedirsRaises(TUNNELS_DIR, proc[p].name)
       THEN /\ proc' = [proc EXCEPT ![p].pc = "ended", ![p].result = "FileExistsError"]
            /\ UNCHANGED tdir
       ELSE /\ proc' = [proc EXCEPT ![p].pc = "reserved",
                                    ![p].reserved = @ \cup {proc[p].name}]
            /\ tdir' = [tdir EXCEPT ![TUNNELS_DIR][proc[p].name] = EmptyDir]
    /\ UNCHANGED <<running, TUNNELS_DIR, rootExists, unitFile, enabled, active,
                   registry, last, intact>>

\* Lines 59-143, and the return to the main menu.
AfterReserve(p) ==
    /\ proc[p].pc = "reserved"
    /\ \E dns_name \in DnsNames, service_url \in ServiceUrls, e \in CreateEnvs :
        LET n == proc[p].name
            r == CreateAfterReserve(Reserve(RunStart(TUNNELS_DIR, n)), TUNNELS_DIR, n,
                                    dns_name, service_url, e)
        IN  /\ ApplyWorld(n, r)
            /\ proc' = [proc EXCEPT
                            ![p].pc = IF r.result = "Unhandled" THEN "ended" ELSE "menu",
                            ![p].result = r.result]
    /\ UNCHANGED <<running, TUNNELS_DIR, last, intact>>

RaceNext == \E p \in Procs : AskAndCheck(p) \/ Makedirs(p) \/ AfterReserve(p)

RaceSpec == Init /\ [][RaceNext]_vars

Next ==
    \/ CreateTunnel
    \/ DeleteTunnel
    \/ ToggleService
    \/ DisplayStatus
    \/ Exit
    \/ Start

Spec == Init /\ [][Next]_vars

(***************************************************************************)
(* Properties.                                                             *)
(***************************************************************************)
\* The steps a run attempted.
Steps(l) == {l.trace[i] : i \in 1..Len(l.trace)}

\* A printed line that is a command for the operator to run.
IsCommandLine(l) == Len(l.text) > 0 /\ l.text[1] = "sudo"

CommandLines(l) == {i \in 1..Len(l.printed) : IsCommandLine(l.printed[i])}

RedLines(l) == {i \in 1..Len(l.printed) : l.printed[i].style \in {"red", "bold red"}}

DirExists(n) == PathExists(TUNNELS_DIR, n)

HasConfig(n) == tdir[TUNNELS_DIR][n].config # <<>>

HasScript(n) == tdir[TUNNELS_DIR][n].script # <<>>

\* The Create results that are hard failures reported to the operator.
CreateHardFailures == {"CommandNotFound", "ErrorCreating", "CredsNotFound"}

DeleteHardFailures == {"ErrorDeleting", "UnexpectedError"}

\* The last run failed in shutil.rmtree itself.
RmtreeFailed(l) ==
    /\ l.result = "UnexpectedError"
    /\ Len(l.trace) > 0
    /\ l.trace[Len(l.trace)] = "rmtree"

\* The last run printed the warning about the registry's non-zero exit.
RegistryRefused(l) ==
    \E i \in 1..Len(l.printed) :
        /\ l.printed[i].style = "yellow"
        /\ l.printed[i].text[1] = "Could not delete tunnel from Cloudflare."

\* Tunnel n is ABSENT after the last run, apart from what a failed directory
\* removal or a refusing registry left behind.
AbsentUnlessRefused(n) ==
    \/ RmtreeFailed(last)
    \/ /\ ~DirExists(n)
       /\ unitFile[n] = <<>>
       /\ n \in registry => RegistryRefused(last)

\* Config file, launch script and unit file of n exist and carry its name.
Complete(n) ==
    /\ HasConfig(n)
    /\ HasScript(n)
    /\ unitFile[n] # <<>>
    /\ tdir[TUNNELS_DIR][n].config[1].tunnel = n
    /\ unitFile[n][1].Description = <<"Cloudflare Tunnel for", n>>

\* C1: a Create on a name whose path exists reports AlreadyExists and attempts
\* no step at all: no registry call, no file write, no supervisor call; disk,
\* supervisor and registry are unchanged.
C1_CreateOnExistingWritesNothing ==
    [][\A n \in Names :
        (last'.op = "create" /\ last'.name = n /\ DirExists(n))
        => /\ last'.result = "AlreadyExists"
           /\ last'.trace = <<>>
           /\ UNCHANGED world]_vars

\* A Create was rejected on a directory that a half-finished Create left.
C1_Witness ==
    /\ last.op = "create"
    /\ last.result = "AlreadyExists"
    /\ last.name \in TunnelNames
    /\ DirExists(last.name)
    /\ ~HasConfig(last.name)

\* C2: a Create of an absent name directly followed by a confirmed Delete of
\* that name leaves directory and unit file gone unless the directory removal
\* itself failed, and the registry identity gone unless the registry refused.
C2_CreateThenDeleteIsAbsent ==
    [][\A n \in TunnelNames :
        (/\ last.op = "create" /\ last.name = n /\ last.result # "AlreadyExists"
         /\ last'.op = "delete" /\ last'.name = n /\ last'.confirm = "yes")
        => AbsentUnlessRefused(n)']_vars

\* C3: a confirmed Delete attempts every teardown step whatever the earlier
\* steps answered, and ends in a hard failure only when the directory removal
\* itself failed.
C3_EveryTeardownStepAttempted ==
    [][\A n \in Names :
        (last'.op = "delete" /\ last'.name = n /\ last'.confirm = "yes")
        => /\ {"stop", "disable", "daemon_reload", "registry_delete", "rmtree"}
                \subseteq Steps(last')
           /\ UnitFileExists(n) => "rm_unit" \in Steps(last')
           /\ last'.result \in DeleteHardFailures => RmtreeFailed(last')]_vars

\* C4: a Delete that directly follows a Delete of the same name does not end in
\* an unhandled exception, and after a first Delete that removed the directory
\* it reports NotFound and changes nothing.
C4_SecondDeleteIsGraceful ==
    [][(/\ last.op = "delete"
        /\ last'.op = "delete"
        /\ last'.name \in {last.name, NoName})
       => /\ last'.result # "Unhandled"
          /\ last.result = "Deleted"
                => last'.result = "NotFound" /\ UNCHANGED world]_vars

\* What a Create that stopped on a hard failure had created is in place.
NothingRolledBack ==
    (last.op = "create" /\ last.result \in CreateHardFailures)
    => /\ DirExists(last.name)
       /\ Len(last.trace) > 2 \/ last.result = "CredsNotFound"
            => last.name \in registry
       /\ "write_config" \in Steps(last) => HasConfig(last.name)
       /\ "write_script" \in Steps(last) => HasScript(last.name)
       /\ "daemon_reload" \in Steps(last) => unitFile[last.name] # <<>>
       /\ "start" \in Steps(last) => enabled[last.name]

\* C5: Create never rolls back.  After a Create that stopped on a hard failure
\* the reserved directory and everything else it created are in place, and a
\* Create of the same name that follows it is rejected with AlreadyExists
\* before any step.
C5_CreateNeverRollsBack ==
    [][/\ NothingRolledBack'
       /\ (/\ last.op = "create" /\ last.result \in CreateHardFailures
           /\ last'.op = "create" /\ last'.name = last.name)
          => last'.result = "AlreadyExists" /\ last'.trace = <<>>]_vars

\* A Create stopped at the supervisor's start command, after the unit file
\* was written and the unit enabled.
C5_Witness ==
    /\ last.op = "create"
    /\ last.result = "ErrorCreating"
    /\ "start" \in Steps(last)
    /\ unitFile[last.name] # <<>>

\* C6: when the unit file cannot be written for lack of privilege, Create ends
\* in the degraded success: config and executable launch script exist, no unit
\* file is installed, Create ran no supervisor command, the output holds the
\* unit text and exactly three command lines, and no error is reported.
C6_PermissionDeniedIsDegradedSuccess ==
    (last.op = "create" /\ last.result = "Degraded")
    => /\ running
       /\ HasConfig(last.name)
       /\ tdir[TUNNELS_DIR][last.name].config[1].tunnel = last.name
       /\ Len(tdir[TUNNELS_DIR][last.name].config[1].ingress) = 2
       /\ HasScript(last.name)
       /\ tdir[TUNNELS_DIR][last.name].script[1].mode = ScriptMode
       /\ unitFile[last.name] = <<>>
       /\ Steps(last) \cap {"daemon_reload", "enable", "start"} = {}
       /\ \E i \in 1..Len(last.printed) :
             last.printed[i].body = <<ServiceContent(TUNNELS_DIR, last.name)>>
       /\ Cardinality(CommandLines(last)) = 3
       /\ RedLines(last) = {}

\* A Create ended in the permission fallback.
C6_Witness ==
    /\ last.op = "create"
    /\ last.result = "Degraded"
    /\ "write_unit" \in Steps(last)

\* C7: from every state in which the directory of a name exists, a confirmed
\* Delete of that name leaves directory and unit file gone unless the directory
\* removal itself failed, and the registry identity gone unless the registry
\* refused; a missing unit file or identity does not stop it.
C7_DeleteReachesAbsent ==
    [][\A n \in TunnelNames :
        (/\ DirExists(n)
         /\ last'.op = "delete" /\ last'.name = n /\ last'.confirm = "yes")
        => AbsentUnlessRefused(n)']_vars

\* C8 as stated: a tunnel whose latest Create ran to the end has config file,
\* launch script and unit file after every further operation that leaves its
\* directory in place.
C8_FullyCreatedStaysComplete ==
    [][\A n \in TunnelNames : (intact[n] /\ DirExists(n)') => Complete(n)']_vars

\* C8 amended: a tunnel whose latest Create ran to the end, on which no
\* confirmed Delete was started since and whose directory exists, has config
\* file, launch script and unit file, all carrying its name.
C8_IntactIsComplete ==
    \A n \in TunnelNames : (intact[n] /\ DirExists(n)) => Complete(n)

\* A fully created tunnel was deactivated.
C8_Witness ==
    /\ last.op = "deactivate"
    /\ last.result = "Deactivated"
    /\ intact[last.name]

\* C9: a Delete given a name whose path does not exist reports NotFound without
\* asking for confirmation and without attempting any step; disk, supervisor
\* and registry are unchanged.
C9_DeleteOnAbsentHasNoEffect ==
    [][\A n \in Names :
        (last'.op = "delete" /\ last'.name = n /\ ~DirExists(n))
        => /\ last'.result = "NotFound"
           /\ last'.confirm = "not asked"
           /\ last'.trace = <<>>
           /\ running'
           /\ UNCHANGED world]_vars

\* A Delete reported NotFound for a name that still has a registry identity.
C9_Witness ==
    /\ last.op = "delete"
    /\ last.result = "NotFound"
    /\ last.name \in TunnelNames
    /\ ~DirExists(last.name)
    /\ last.name \in registry

\* C10: a Delete whose confirmation is declined attempts no step and leaves
\* disk, supervisor and registry unchanged; a Delete that attempts a step or
\* changes anything was confirmed.
C10_NothingBeforeConfirmation ==
    [][last'.op = "delete"
       => /\ last'.confirm = "no" => (last'.trace = <<>> /\ UNCHANGED world)
          /\ (last'.trace # <<>> \/ ~UNCHANGED world) => last'.confirm = "yes"]_vars

\* The deletion of a tunnel with a running, enabled unit was declined.
C10_Witness ==
    /\ last.op = "delete"
    /\ last.result = "Cancelled"
    /\ last.name \in TunnelNames
    /\ active[last.name]
    /\ enabled[last.name]
    /\ unitFile[last.name] # <<>>

\* The last pass queried the supervisor's status.
StatusQueried(l) == l.status.tool # "not asked"

\* The status line the last pass printed says word w.
StatusLineSays(l, w) ==
    /\ Len(l.printed) > 0
    /\ l.printed[1].text = <<"Service Status:", w>>

\* C11: when systemctl cannot be located the status query reports that the
\* status could not be checked and never "inactive"; "inactive" is reported
\* only when systemctl ran and its stripped output is not "active", and
\* "active" only when it ran and answered "active".
C11_UnknownIsNotInactive ==
    StatusQueried(last)
    => /\ last.status.tool = "missing"
            => /\ last.status.reported = "unknown"
               /\ ~StatusLineSays(last, "inactive")
               /\ ~StatusLineSays(last, "active")
               /\ last.printed[1].style = "plain"
       /\ (last.status.reported = "inactive" \/ StatusLineSays(last, "inactive"))
            => /\ last.status.tool = "ran"
               /\ Strip(last.status.stdout) # <<"active">>
       /\ (last.status.reported = "active" \/ StatusLineSays(last, "active"))
            => /\ last.status.tool = "ran"
               /\ Strip(last.status.stdout) = <<"active">>

\* The status of a running unit was queried on a host without systemctl.
C11_Witness ==
    /\ last.op = "status"
    /\ last.status.tool = "missing"
    /\ last.status.reported = "unknown"
    /\ active[last.name]

\* The credential path the registry's output of a run names.
ObtainedPaths == {<<CredsJson>>, <<CredsJsonOther>>}

\* C12: the routing config a Create writes holds the tunnel's name, the
\* credential path obtained from the registry and an ingress list of exactly
\* two rules: first the rule with the entered hostname and the entered service
\* URL, last the rule without a hostname that answers http_status:404.
C12_IngressOrder ==
    [][(last'.op = "create" /\ "write_config" \in Steps(last'))
       => LET c == tdir'[TUNNELS_DIR'][last'.name].config
          IN  /\ Len(c) = 1
              /\ c[1].tunnel = last'.name
              /\ c[1].credentials_file \in ObtainedPaths
              /\ Len(c[1].ingress) = 2
              /\ c[1].ingress[1].hostname = <<last'.args[1]>>
              /\ c[1].ingress[1].service = last'.args[2]
              /\ c[1].ingress[2].hostname = <<>>
              /\ c[1].ingress[2].service = "http_status:404"]_vars

\* A config was written whose first rule forwards to the very status service
\* the catch-all uses, with the credential file at the other path.
C12_Witness ==
    /\ last.op = "create"
    /\ last.result = "Active"
    /\ last.args = <<"*.example.com", "http_status:404">>
    /\ tdir[TUNNELS_DIR][last.name].config[1].credentials_file = <<CredsJsonOther>>
    /\ tdir[TUNNELS_DIR][last.name].config[1].ingress[1].hostname = <<"*.example.com">>

\* The steps of a Create that runs to the end, in order.
CreateOrder ==
    <<"makedirs", "registry_create", "write_config", "write_script", "chmod",
      "write_unit", "daemon_reload", "enable", "start">>

IsPrefix(s, t) == Len(s) <= Len(t) /\ SubSeq(t, 1, Len(s)) = s

\* C13: the steps a Create attempted are an initial part of the fixed order
\* reserve, register, write config, write script, write unit, reload, enable,
\* start.  When the registry was called the directory was reserved; when the
\* config was written the registry had issued the identity and a non-empty
\* credential path, which the config holds; when the unit file was attempted
\* the executable launch script existed; a Create that reports the started
\* service went through every step.
C13_CreateStepOrder ==
    last.op = "create"
    => /\ IsPrefix(last.trace, CreateOrder)
       /\ "registry_create" \in Steps(last) => DirExists(last.name)
       /\ "write_config" \in Steps(last)
            => /\ last.name \in registry
               /\ HasConfig(last.name)
               /\ tdir[TUNNELS_DIR][last.name].config[1].credentials_file # <<>>
       /\ "write_unit" \in Steps(last)
            => /\ HasScript(last.name)
               /\ tdir[TUNNELS_DIR][last.name].script[1].mode = ScriptMode
       /\ Steps(last) \cap {"daemon_reload", "enable", "start"} # {}
            => unitFile[last.name] # <<>>
       /\ last.result = "Active" => last.trace = CreateOrder

\* A Create stopped when the supervisor refused to enable the unit: reload was
\* the last step before it.
C13_Witness ==
    /\ last.op = "create"
    /\ last.result = "ErrorCreating"
    /\ last.trace = SubSeq(CreateOrder, 1, 8)
    /\ HasScript(last.name)
    /\ ~enabled[last.name]

\* The registry's create call of the last run exited with zero: its output
\* was printed.
RegistryCreated(l) ==
    \E i \in 1..Len(l.printed) :
        l.printed[i].style = "green" /\ l.printed[i].text = <<"result.stdout">>

\* C14: a Create whose registry call succeeded and that wrote no config (no
\* credential path was located in the output) reports the missing credential
\* path and returns without raising; no config, launch script or unit file is
\* written, the identity is not cleaned up and the reserved directory stays.
C14_NoCredsPathIsReported ==
    (/\ last.op = "create"
     /\ RegistryCreated(last)
     /\ "write_config" \notin Steps(last))
    => /\ last.result = "CredsNotFound"
       /\ running
       /\ last.trace = <<"makedirs", "registry_create">>
       /\ DirExists(last.name)
       /\ ~HasConfig(last.name)
       /\ ~HasScript(last.name)
       /\ last.name \in registry

\* C15: a tunnel that was created to the end and on which no deletion was
\* started is enumerable after every operation: the current store root
\* exists and holds its directory, so the listing shows its name.
C15_CreatedIsEnumerable ==
    \A n \in TunnelNames :
        intact[n] => /\ rootExists[TUNNELS_DIR]
                     /\ n \in ListTunnels(TUNNELS_DIR)

\* C16: at every point where the tunnels are enumerated the store root
\* exists: while the process runs the root is on disk, and no pass of the main
\* loop, Delete or Display Tunnel Info ends in the listing's exception.
C16_ListingNeverRaises ==
    /\ running => rootExists[TUNNELS_DIR]
    /\ ~(last.result = "Unhandled" /\ last.name = NoName)

\* C18: a confirmed Delete leaves every tunnel other than the entered name as
\* it was: directory, config file, launch script, unit file and registry
\* identity.
C18_DeleteTouchesOnlyItsName ==
    [][(last'.op = "delete" /\ last'.confirm = "yes")
       => \A m \in TunnelNames \ {last'.name} :
            /\ rootExists'[TUNNELS_DIR] = rootExists[TUNNELS_DIR]
            /\ tdir'[TUNNELS_DIR][m] = tdir[TUNNELS_DIR][m]
            /\ unitFile'[m] = unitFile[m]
            /\ (m \in registry') = (m \in registry)]_vars

\* C19: no operation leaves an orphan.  Whenever the directory of a name
\* disappears, no unit file is left for the name, and no registry identity
\* either unless the registry itself refused to delete it in that run.
C19_NoOrphans ==
    [][\A m \in TunnelNames :
        (DirExists(m) /\ ~DirExists(m)')
        => /\ unitFile'[m] = <<>>
           /\ m \in registry' => (last'.name = m /\ RegistryRefused(last'))]_vars

\* The ways a Create ends before it reserved a directory.
ReservationFailures == {"AlreadyExists", "FileExistsError"}

\* C17: when the Creates of two processes interleave, no name is reserved by
\* both of them, and a step of Create that is taken on a name whose path
\* exists (the existence check, or makedirs after the other process won the
\* race) fails without changing disk, supervisor or registry.
C17_ReservationIsAtomic ==
    [][/\ \A p, q \in Procs :
            p # q => proc'[p].reserved \cap proc'[q].reserved = {}
       /\ \A p \in Procs :
            (/\ proc'[p] # proc[p]
             /\ proc[p].pc \in {"menu", "checked"}
             /\ PathExists(TUNNELS_DIR, proc'[p].name))
            => /\ proc'[p].result \in ReservationFailures
               /\ proc'[p].pc # "reserved"
               /\ UNCHANGED world]_vars

\* Both processes passed the existence check for the same name; one reserved
\* it and wrote the config, the other ended in makedirs.
C17_Witness ==
    \E p, q \in Procs :
        /\ p # q
        /\ proc[q].result = "FileExistsError"
        /\ proc[q].name \in proc[p].reserved
        /\ HasConfig(proc[q].name)

====
